---- MODULE Spec2Model ----
(***************************************************************************)
(* A model of ares/populations/Galaxy.py: one GalaxyPopulation instance,   *)
(* its immutable parameter file (cfg), its lazily built attribute caches   *)
(* (st) and the outcome of the most recent call on it (last); peer is the   *)
(* caches of a second instance built from the same parameters.             *)
(*                                                                         *)
(* Floating point quantities are modelled exactly, as rationals k/d times  *)
(* a monomial in the named physical constants and external scalars, so a   *)
(* formula is compared by its factors and never by a rounded number.       *)
(***************************************************************************)
EXTENDS Integers, Sequences, FiniteSets, TLC

VARIABLES cfg, st, last, peer

vars == <<cfg, st, last, peer>>

(***************************************************************************)
(* Quantities                                                              *)
(***************************************************************************)

\* The named constants and external scalars a result may carry as a factor.
\* pow10_8th marks a value 10 ** (k / 8), the form _fstar_poly returns.
Units ==
    {"s_per_yr", "g_per_msun", "erg_per_ev", "g_per_baryon", "rho_b_z0",
     "rhodot_cgs", "AveragePhotonEnergy", "pop_fesc", "Spectrum", "pow10_8th",
     "_sfrd_ham", "_DoublePowerLaw"}

NoUnits == [x \in Units |-> 0]

RECURSIVE Gcd(_, _)
Gcd(a, b) == IF b = 0 THEN a ELSE Gcd(b, a % b)

Abs(n) == IF n < 0 THEN 0 - n ELSE n

\* k/d in lowest terms; zero has no factors (0.0 * x == 0.0).
Norm(v) ==
    IF v.k = 0 THEN [k |-> 0, d |-> 1, u |-> NoUnits]
    ELSE LET g == Gcd(Abs(v.k), v.d)
         IN  [k |-> v.k \div g, d |-> v.d \div g, u |-> v.u]

Num(n) == [k |-> n, d |-> 1, u |-> NoUnits]

Const(x) == [k |-> 1, d |-> 1, u |-> [y \in Units |-> IF y = x THEN 1 ELSE 0]]

Times(a, b) ==
    Norm([k |-> a.k * b.k, d |-> a.d * b.d,
          u |-> [x \in Units |-> a.u[x] + b.u[x]]])

\* a / b for b # 0
Over(a, b) ==
    Norm([k |-> IF b.k < 0 THEN 0 - (a.k * b.d) ELSE a.k * b.d,
          d |-> a.d * Abs(b.k),
          u |-> [x \in Units |-> a.u[x] - b.u[x]]])

\* An optional argument: <<>> is None, <<e>> is the number e.
None == <<>>
Some(e) == <<e>>
IsNone(o) == o = <<>>
Get(o) == o[1]

\* A local variable: the code F that follows an assignment, run with the
\* value v that was assigned.
Then(v, F(_)) == F(v)

(***************************************************************************)
(* Unit tags are strings of characters                                     *)
(***************************************************************************)

UpperChars == <<"E", "R", "G", "S", "F", "H", "Z", "P", "O", "T", "N", "B",
                "A", "Y", "M", "U">>
LowerChars == <<"e", "r", "g", "s", "f", "h", "z", "p", "o", "t", "n", "b",
                "a", "y", "m", "u">>

\* str.lower() on one character
LowerChar(c) ==
    IF \E i \in 1..Len(UpperChars) : UpperChars[i] = c
    THEN LowerChars[CHOOSE i \in 1..Len(UpperChars) : UpperChars[i] = c]
    ELSE c

lower(t) == [i \in 1..Len(t) |-> LowerChar(t[i])]

\* str.replace(' ', ''): removes the space character and nothing else
replace_space(t) == SelectSeq(t, LAMBDA c : c # " ")

erg_s_sfr == <<"e", "r", "g", "/", "s", "/", "s", "f", "r">>
erg_s_hz_sfr == <<"e", "r", "g", "/", "s", "/", "h", "z", "/", "s", "f", "r">>
photons_baryon ==
    <<"p", "h", "o", "t", "o", "n", "s", "/", "b", "a", "r", "y", "o", "n">>
photons_msun == <<"p", "h", "o", "t", "o", "n", "s", "/", "m", "s", "u", "n">>
photons_s_sfr ==
    <<"p", "h", "o", "t", "o", "n", "s", "/", "s", "/", "s", "f", "r">>

ValidTags ==
    {erg_s_sfr, erg_s_hz_sfr, photons_baryon, photons_msun, photons_s_sfr}

PhotonTags == {photons_baryon, photons_msun, photons_s_sfr}

(***************************************************************************)
(* Results of a call                                                       *)
(***************************************************************************)

\* The call returned val and left the instance in state s.
Ok(s, v) == [st |-> s, out |-> "return", val |-> v, log |-> {}]

\* The call raised e and left the instance in state s.
Raise(s, e) == [st |-> s, out |-> e, val |-> Num(0), log |-> {}]

\* The same result with the lines w printed on the way.
Printed(r, w) == [r EXCEPT !.log = @ \cup w]

(***************************************************************************)
(* The module's global names                                               *)
(***************************************************************************)

\* Names bound at module level by the import statements and assignments.
ModuleNames ==
    {"os", "pickle", "np", "read_lit", "pl", "FunctionType", "Cosmology",
     "HaloPopulation", "Population", "namedtuple", "Source", "Star",
     "BlackHole", "print_pop", "interp1d", "quad", "simps", "fsolve", "fmin",
     "curve_fit", "gamma", "gammainc", "gammaincc", "ParameterFile",
     "MagnitudeSystem", "ProgressBar", "s_per_yr", "g_per_msun", "erg_per_ev",
     "rhodot_cgs", "E_LyA", "rho_cgs", "s_per_myr", "cm_per_mpc",
     "StellarParameters", "BlackHoleParameters", "erfc", "mpmath", "MPI",
     "rank", "size", "ARES", "log10", "lftypes", "LiteratureSource",
     "normalize_sed", "GalaxyPopulation"}

(***************************************************************************)
(* The parameter file and the external providers                           *)
(***************************************************************************)

\* pf['pop_model'] as the is_*_model properties read it
is_fcoll_model == cfg.pop_model = "fcoll"
is_ham_model == cfg.pop_model = "ham"
is_hod_model == cfg.pop_model = "hod"
is_user_model == cfg.pop_model = "user"

\* type(pf['pop_fstar']) == FunctionType
is_user_fstar == cfg.pop_fstar.fn

\* The photon energies [eV] a band may start or end at, in rising order.
EPts == <<5, 10, 200, 3000>>

\* The index of energy e in EPts
EIdx(e) == CHOOSE i \in 1..Len(EPts) : EPts[i] = e

RECURSIVE SumCells(_, _, _)
SumCells(f, a, b) == IF a >= b THEN 0 ELSE f[a] + SumCells(f, a + 1, b)

\* quad(f, Emin, Emax)[0] for Emin <= Emax: the sum of f over the cells of
\* [Emin, Emax), f[c] being the integral of the integrand over cell c.
quad(f, Emin, Emax) == SumCells(f, EIdx(Emin), EIdx(Emax))

\* src.Spectrum integrated over each cell (the source model is external)
Spectrum == cfg.spectrum

\* lambda E: self.src.Spectrum(E) * E, integrated over each cell
SpectrumTimesE == [c \in 1..Len(cfg.spectrum) |-> cfg.spectrum[c] * EPts[c]]

\* self.dfcolldt(z), supplied by the halo provider
dfcolldt(z) == cfg.dfcolldt[z]

\* pf['pop_sfrd'] when it is a function of z
pop_sfrd(z) == 2 * z

\* pf['pop_fstar'] when it is a function of (z, M)
pop_fstar(z, M) == z + M

(***************************************************************************)
(* Source and yield                                                        *)
(***************************************************************************)

\* The src property: instantiates the source model on first access.
src(s) == [s EXCEPT !.src = TRUE]

normalize_sed_no_raise(s) ==
    LET units == lower(replace_space(cfg.pop_yield_units))
        energy == Times(Num(cfg.pop_yield),
                        Times(Const("AveragePhotonEnergy"), Const("erg_per_ev")))
    IN  IF units = erg_s_sfr
        THEN Ok(s, Over(Times(Num(cfg.pop_yield), Const("s_per_yr")),
                        Const("g_per_msun")))
        ELSE IF units = erg_s_hz_sfr THEN Ok(s, Num(cfg.pop_yield))
        ELSE IF units = photons_baryon
        THEN Ok(src(s), Over(energy, Const("g_per_baryon")))
        ELSE IF units = photons_msun
        THEN Ok(src(s), Over(energy, Const("g_per_msun")))
        ELSE IF units = photons_s_sfr
        THEN Ok(src(s), Times(energy, Over(Const("s_per_yr"), Const("g_per_msun"))))
        ELSE Ok(src(s), energy)

normalize_sed_swapped(s) ==
    LET units == lower(replace_space(cfg.pop_yield_units))
        energy == Times(Num(cfg.pop_yield),
                        Times(Const("AveragePhotonEnergy"), Const("erg_per_ev")))
    IN  IF units = erg_s_sfr
        THEN Ok(s, Over(Times(Num(cfg.pop_yield), Const("s_per_yr")),
                        Const("g_per_msun")))
        ELSE IF units = erg_s_hz_sfr THEN Ok(s, Num(cfg.pop_yield))
        ELSE IF units = photons_baryon
        THEN Ok(src(s), Over(energy, Const("g_per_msun")))
        ELSE IF units = photons_msun
        THEN Ok(src(s), Over(energy, Const("g_per_baryon")))
        ELSE IF units = photons_s_sfr
        THEN Ok(src(s), Times(energy, Over(Const("s_per_yr"), Const("g_per_msun"))))
        ELSE Raise(src(s), "ValueError")

\* normalize_sed(pop): the yield in erg / g
normalize_sed(s) ==
    LET units == lower(replace_space(cfg.pop_yield_units))
    IN  IF units = erg_s_sfr
        THEN Ok(s, Over(Times(Num(cfg.pop_yield), Const("s_per_yr")),
                        Const("g_per_msun")))
        ELSE IF units = erg_s_hz_sfr THEN Ok(s, Num(cfg.pop_yield))
        ELSE LET s1 == src(s)
                 erg_per_phot ==
                     Times(Const("AveragePhotonEnergy"), Const("erg_per_ev"))
                 energy_per_sfr == Times(Num(cfg.pop_yield), erg_per_phot)
             IN  IF units = photons_baryon
                 THEN Ok(s1, Over(energy_per_sfr, Const("g_per_baryon")))
                 ELSE IF units = photons_msun
                 THEN Ok(s1, Over(energy_per_sfr, Const("g_per_msun")))
                 ELSE IF units = photons_s_sfr
                 THEN Ok(s1, Times(energy_per_sfr,
                                   Over(Const("s_per_yr"), Const("g_per_msun"))))
                 ELSE Raise(s1, "ValueError")

\* The yield_per_sfr property
yield_per_sfr(s) ==
    IF s.yps.set THEN Ok(s, s.yps.v)
    ELSE Then(normalize_sed(s), LAMBDA r :
             IF r.out = "return"
             THEN Ok([r.st EXCEPT !.yps = [set |-> TRUE, v |-> r.val]], r.val)
             ELSE r)

(***************************************************************************)
(* Band conversion                                                         *)
(***************************************************************************)

\* The (Emin, Emax) a call works with: an omitted bound is the native one.
EffBand(Emin, Emax) ==
    <<IF IsNone(Emin) THEN cfg.pop_Emin ELSE Get(Emin),
      IF IsNone(Emax) THEN cfg.pop_Emax ELSE Get(Emax)>>

\* The warnings printed for a band that exceeds the native band
BandWarnings(b) ==
    (IF b[1] < cfg.pop_Emin THEN {"WARNING: Emin < pop_Emin"} ELSE {})
    \cup (IF b[2] > cfg.pop_Emax THEN {"WARNING: Emax > pop_Emax"} ELSE {})

\* The state after the two tests "(E is not None) and (self.src is not None)":
\* the src property is read only for a bound that is given.
SrcTested(s, Emin, Emax) ==
    IF IsNone(Emin) /\ IsNone(Emax) THEN s ELSE src(s)

_convert_band_recompute(s, Emin, Emax) ==
    LET different_band == ~IsNone(Emin) \/ ~IsNone(Emax)
        b == EffBand(Emin, Emax)
        s1 == SrcTested(s, Emin, Emax)
        factor == Num(quad(Spectrum, b[1], b[2]) + Cardinality(DOMAIN s1.cf))
    IN  IF different_band
        THEN Printed(Ok([s1 EXCEPT !.cf = (b :> factor) @@ [k \in DOMAIN @ \ {b} |-> @[k]]],
                        factor), BandWarnings(b))
        ELSE Ok(s1, Num(1))

\* _convert_band(Emin, Emax)
_convert_band(s, Emin, Emax) ==
    LET different_band == ~IsNone(Emin) \/ ~IsNone(Emax)
        b == EffBand(Emin, Emax)
        s1 == SrcTested(s, Emin, Emax)
        factor == Num(quad(Spectrum, b[1], b[2]))
    IN  IF different_band
        THEN IF b \in DOMAIN s1.cf
             THEN Ok(s1, s1.cf[b])
             ELSE Printed(Ok([s1 EXCEPT !.cf = (b :> factor) @@ @], factor),
                          BandWarnings(b))
        ELSE Ok(s1, Num(1))

\* _get_energy_per_photon(Emin, Emax)
_get_energy_per_photon(s, Emin, Emax) ==
    LET b == EffBand(Emin, Emax)
        s1 == SrcTested(s, Emin, Emax)
        Eavg == Num(quad(SpectrumTimesE, b[1], b[2]))
    IN  IF b \in DOMAIN s1.ev
        THEN Ok(s1, s1.ev[b])
        ELSE Printed(Ok([src(s1) EXCEPT !.ev = (b :> Eavg) @@ @], Eavg),
                     BandWarnings(b))

(***************************************************************************)
(* Halo provider, accretion and minimum mass                               *)
(***************************************************************************)

\* halos.z and halos.M, the provider's grids (halos.logM is log10 of M)
HaloZ == <<6, 7, 8>>
HaloM == <<10, 100, 1000>>

\* pf['pop_constraints']['z'] and pf['pop_logM']
ConZ == <<7, 8>>
pop_logM == <<1, 2>>

RECURSIVE Pow10(_)
Pow10(n) == IF n = 0 THEN 1 ELSE 10 * Pow10(n - 1)

RECURSIVE Log10(_)
Log10(m) == IF m < 10 THEN 0 ELSE 1 + Log10(m \div 10)

\* The _Marr property: 10 ** pf['pop_logM']
Marr == [j \in 1..Len(pop_logM) |-> Pow10(pop_logM[j])]

\* halos.VirialMass(pf['pop_Tmin'], z, mu): the provider's virial mass at z
VirialMass(z) == cfg.Mvir[z]

\* The value of the Mmin property when pf['pop_Mmin'] is None: one virial
\* mass per entry of halos.z
MminArr == [i \in 1..Len(HaloZ) |-> VirialMass(HaloZ[i])]

\* The Mmin property: caches the scalar pf['pop_Mmin'] or the array
Mmin(s) == [s EXCEPT !.Mmin = TRUE]

\* The Macc property: caches None or the accretion-rate function
Macc(s) == [s EXCEPT !.Macc = TRUE]

\* self.Macc(z, M) when pf['pop_Macc'] is a function
MaccOf(z, M) == IF cfg.pop_Macc = "fast" THEN 2 * M ELSE M \div 5

\* np.argmin(np.abs(x - arr)): the first index at the least distance
ArgMinAbs(x, arr) ==
    CHOOSE j \in 1..Len(arr) :
        /\ \A k \in 1..Len(arr) : Abs(x - arr[j]) <= Abs(x - arr[k])
        /\ \A k \in 1..(j - 1) : Abs(x - arr[k]) > Abs(x - arr[j])

\* The loop of the constraints property over pf['pop_constraints']['z'], from
\* entry i on: one L_star is appended per redshift; the read of M_star[i]
\* fails where the list of magnitudes is shorter than the list of redshifts.
RECURSIVE ConstraintsLoop(_, _)
ConstraintsLoop(s, i) ==
    IF i > Len(ConZ) THEN Ok(s, Num(0))
    ELSE IF i > cfg.M_star_len THEN Raise(s, "IndexError")
    ELSE ConstraintsLoop([s EXCEPT !.constraints.L_star = @ + 1], i + 1)

\* The constraints property: a copy of pf['pop_constraints'] with one L_star
\* appended per redshift. The copy is stored before the loop runs.
constraints(s) ==
    IF s.constraints.set THEN Ok(s, Num(0))
    ELSE ConstraintsLoop([s EXCEPT !.constraints = [set |-> TRUE, L_star |-> 0]], 1)

NotWritten == [w |-> FALSE, j1 |-> 0, j2 |-> 0]

\* One pass of the loop of eta over halos.z, from entry i on. An entry holds
\* the two indices (1-based) its integral was taken with.
RECURSIVE EtaLoop(_, _)
EtaLoop(s, i) ==
    IF i > Len(HaloZ) THEN Ok(s, Num(0))
    ELSE IF cfg.pop_Mmin # "None" THEN Raise(Mmin(s), "TypeError")
    ELSE IF cfg.pop_Macc = "None" THEN Raise(Macc(Mmin(s)), "TypeError")
    ELSE Then(ArgMinAbs(MminArr[i], HaloM), LAMBDA j1a :
         Then(IF MaccOf(HaloZ[i], HaloM[j1a]) > HaloM[j1a] THEN j1a - 1 ELSE j1a,
              LAMBDA j1 :
             IF j1 + 1 > Len(HaloM) THEN Raise(Macc(Mmin(s)), "IndexError")
             ELSE IF j1 < 1 THEN Raise(Macc(Mmin(s)), "ValueError")
             ELSE EtaLoop([Macc(Mmin(s)) EXCEPT !.eta.v[i] =
                               [w |-> TRUE, j1 |-> j1, j2 |-> j1 + 1]], i + 1)))

\* The eta property
eta(s) ==
    IF ~is_ham_model THEN Raise(s, "AttributeError")
    ELSE IF s.eta.set THEN Ok(s, Num(0))
    ELSE EtaLoop([s EXCEPT !.eta = [set |-> TRUE,
                                    v |-> [i \in 1..Len(HaloZ) |-> NotWritten]]], 1)

(***************************************************************************)
(* Abundance matching and the polynomial fit                               *)
(***************************************************************************)

\* The efficiency that solves the abundance-matching equation
\* phi_star * gammainc(alpha + 1, L(f) / L_star) = n(> M) at redshift z and
\* mass M: a number fixed by the redshift, the mass and the eta entry used.
Root(z, M, e) == z + M + e.j1

fsolve_always_root(z, M, e) == Root(z, M, e)

\* fsolve(to_min, 0.001, ...)[0]: the root-finder is external. Where it
\* converges its answer is the root; where it does not (maxfev reached, no
\* progress) it returns its last iterate all the same, here a negative one.
fsolve(z, M, e) == IF <<z, M>> \in cfg.nonconv THEN 0 - 1 ELSE Root(z, M, e)

\* The loops of _fstar_ham over (constraint redshift, mass), row by row, from
\* cell n on (n counts from 0).
RECURSIVE HamLoop(_, _)
HamLoop(s, n) ==
    IF n >= Len(ConZ) * Len(Marr) THEN Ok(s, Num(0))
    ELSE Then((n \div Len(Marr)) + 1, LAMBDA i :
         Then((n % Len(Marr)) + 1, LAMBDA j :
         IF j = 1 /\ i > s.constraints.L_star THEN Raise(s, "IndexError")
         ELSE
         Then(Mmin(IF j = 1 THEN [s EXCEPT !.mf_z = ConZ[i]] ELSE s), LAMBDA s1 :
             IF cfg.pop_Mmin # "None" THEN Raise(s1, "TypeError")
             ELSE IF i > Len(HaloZ) THEN Raise(s1, "IndexError")
             ELSE IF Marr[j] < MminArr[i] THEN HamLoop(s1, n + 1)
             ELSE IF cfg.pop_Macc = "None" THEN Raise(Macc(s1), "TypeError")
             ELSE Then(eta(Macc(s1)), LAMBDA re :
                 IF re.out # "return" THEN re
                 ELSE HamLoop([re.st EXCEPT
                                  !.ham.g[i][j] =
                                      fsolve(ConZ[i], Marr[j], re.st.eta.v[i]),
                                  !.nsolve[i][j] = @ + 1], n + 1)))))

ZeroGrid == [i \in 1..Len(ConZ) |-> [j \in 1..Len(Marr) |-> 0]]

_fstar_ham_ones(s) ==
    IF s.ham.set THEN Ok(s, Num(0))
    ELSE Then(yield_per_sfr(s), LAMBDA ry :
             IF ry.out # "return" THEN ry
             ELSE Then(constraints(ry.st), LAMBDA rc :
                 IF rc.out # "return" THEN rc
                 ELSE HamLoop([rc.st EXCEPT
                                  !.ham = [set |-> TRUE,
                                           g |-> [i \in 1..Len(ConZ) |->
                                                     [j \in 1..Len(Marr) |-> 1]]]],
                              0)))

_fstar_ham_rebuild(s) ==
    Then(yield_per_sfr(s), LAMBDA ry :
        IF ry.out # "return" THEN ry
        ELSE Then(constraints(ry.st), LAMBDA rc :
            IF rc.out # "return" THEN rc
            ELSE HamLoop([rc.st EXCEPT !.ham = [set |-> TRUE, g |-> ZeroGrid]],
                         0)))

\* The _fstar_ham property
_fstar_ham(s) ==
    IF s.ham.set THEN Ok(s, Num(0))
    ELSE Then(yield_per_sfr(s), LAMBDA ry :
             IF ry.out # "return" THEN ry
             ELSE Then(constraints(ry.st), LAMBDA rc :
                 IF rc.out # "return" THEN rc
                 ELSE HamLoop([rc.st EXCEPT
                                  !.ham = [set |-> TRUE, g |-> ZeroGrid]], 0)))

RECURSIVE SumSeq(_)
SumSeq(q) == IF q = <<>> THEN 0 ELSE Head(q) + SumSeq(Tail(q))

\* curve_fit(to_min, x, y, p0=guess)[0]: the least-squares fit is external;
\* its six coefficients are numbers fixed by the fitted grid.
curve_fit(g) ==
    <<SumSeq([i \in 1..Len(g) |-> SumSeq(g[i])]) % 7, 1, 2, 0 - 1, 0 - 2, 1>>

\* The _fstar_coeff property
_fstar_coeff(s) ==
    IF s.coef.set THEN Ok(s, Num(0))
    ELSE Then(constraints(s), LAMBDA rc :
         IF rc.out # "return" THEN rc
         ELSE Then(_fstar_ham(rc.st), LAMBDA rh :
             IF rh.out # "return" THEN rh
             ELSE Then([rh.st EXCEPT !.nfit = @ + 1], LAMBDA s1 :
                 IF ~cfg.fit_ok THEN Raise(s1, "RuntimeError")
                 ELSE Ok([s1 EXCEPT !.coef = [set |-> TRUE,
                                              c |-> curve_fit(s1.ham.g)]],
                         Num(0)))))

\* _fstar_poly(z, M, *coeff) for M a power of ten: 10 ** logf, given as the
\* eighths of logf (the surface is in (1 + z) / 8).
_fstar_poly(z, M, coeff) ==
    LET L == Log10(M)
        logf8 == 8 * coeff[1] + 8 * coeff[2] * L + coeff[3] * (1 + z)
                 + coeff[4] * (1 + z) * L + 8 * coeff[5] * L * L
                 + 8 * coeff[6] * L * L * L
    IN  [k |-> logf8, d |-> 8,
         u |-> [x \in Units |-> IF x = "pow10_8th" THEN 1 ELSE 0]]

fstar_ham_first(s, z, M) ==
    IF is_ham_model
    THEN Then(_fstar_coeff([s EXCEPT !.fstar_lam = TRUE]), LAMBDA rc :
             IF rc.out # "return" THEN rc
             ELSE Ok(rc.st, _fstar_poly(z, M, rc.st.coef.c)))
    ELSE IF is_user_fstar THEN Ok(s, Num(pop_fstar(z, M)))
    ELSE Ok(s, Num(cfg.pop_fstar.c))

\* fstar(z, M)
fstar(s, z, M) ==
    IF is_user_fstar THEN Ok(s, Num(pop_fstar(z, M)))
    ELSE IF ~is_ham_model THEN Ok(s, Num(cfg.pop_fstar.c))
    ELSE Then(_fstar_coeff([s EXCEPT !.fstar_lam = TRUE]), LAMBDA rc :
             IF rc.out # "return" THEN rc
             ELSE Ok(rc.st, _fstar_poly(z, M, rc.st.coef.c)))

(***************************************************************************)
(* Star-formation-rate density                                             *)
(***************************************************************************)

\* The loop of _sfr_ham over halos.z, from row i on
RECURSIVE SfrHamLoop(_, _)
SfrHamLoop(s, i) ==
    IF i > Len(HaloZ) THEN Ok(s, Num(0))
    ELSE IF cfg.pop_Macc = "None" THEN Raise(Macc(s), "TypeError")
    ELSE Then(fstar(Macc(s), HaloZ[i], HaloM[1]), LAMBDA rf :
             IF rf.out # "return" THEN rf
             ELSE SfrHamLoop([rf.st EXCEPT !.sfr_ham.n = i], i + 1))

\* The _sfr_ham property: one row per entry of halos.z
_sfr_ham(s) ==
    IF s.sfr_ham.set THEN Ok(s, Num(0))
    ELSE SfrHamLoop([s EXCEPT !.sfr_ham = [set |-> TRUE, n |-> 0]], 1)

\* The loop of _sfrd_ham_tab over halos.z, from entry i on
RECURSIVE SfrdTabLoop(_, _)
SfrdTabLoop(s, i) ==
    IF i > Len(HaloZ) THEN Ok(s, Num(0))
    ELSE Then(_sfr_ham(s), LAMBDA rs :
             IF rs.out # "return" THEN rs
             ELSE SfrdTabLoop([rs.st EXCEPT !.sfrd_tab.n = i], i + 1))

\* The _sfrd_ham_tab property: one entry per entry of halos.z
_sfrd_ham_tab(s) ==
    IF s.sfrd_tab.set THEN Ok(s, Num(0))
    ELSE SfrdTabLoop([s EXCEPT !.sfrd_tab = [set |-> TRUE, n |-> 0]], 1)

\* The _sfrd_ham property: the cubic spline through the table
_sfrd_ham(s) ==
    IF s.sfrd_spl THEN Ok(s, Num(0))
    ELSE Then(_sfrd_ham_tab(s), LAMBDA rt :
             IF rt.out # "return" THEN rt
             ELSE Ok([rt.st EXCEPT !.sfrd_spl = TRUE], Num(0)))

\* self._sfrd_ham(z) at a redshift of halos.z: the table's entry, which is
\* 0.0 where the table was never written.
SplineAt(s, z) ==
    LET i == CHOOSE k \in 1..Len(HaloZ) : HaloZ[k] = z
    IN  IF i <= s.sfrd_tab.n
        THEN Times(Num(z), Const("_sfrd_ham"))
        ELSE Num(0)

\* The body of SFRD after the zform test and the explicit pop_sfrd
SFRD_model(s, z) ==
    IF is_fcoll_model
    THEN IF is_user_fstar THEN Raise(s, "TypeError")
         ELSE Then(Times(Times(Num(cfg.pop_fstar.c), Const("rho_b_z0")),
                         Num(dfcolldt(z))), LAMBDA sfrd :
                  IF sfrd.k < 0
                  THEN IF "negative_SFRD" \notin ModuleNames
                       THEN Raise(s, "NameError")
                       ELSE IF "sys" \notin ModuleNames
                       THEN Printed(Raise(s, "NameError"), {"negative_SFRD"})
                       ELSE Printed(Raise(s, "SystemExit"), {"negative_SFRD"})
                  ELSE Ok(s, sfrd))
    ELSE IF is_ham_model
    THEN Then(_sfrd_ham(s), LAMBDA rh :
             IF rh.out # "return" THEN rh
             ELSE IF z < HaloZ[1] \/ z > HaloZ[Len(HaloZ)]
             THEN Raise(rh.st, "ValueError")
             ELSE Ok(rh.st, Over(Times(SplineAt(rh.st, z), Const("g_per_msun")),
                                 Const("s_per_yr"))))
    ELSE Raise(s, "TypeError")

SFRD_no_zform(s, z) ==
    IF cfg.pop_sfrd # "None"
    THEN Ok(s, Over(Num(pop_sfrd(z)), Const("rhodot_cgs")))
    ELSE SFRD_model(s, z)

SFRD_no_fstar(s, z) ==
    IF z > cfg.zform THEN Ok(s, Num(0))
    ELSE IF cfg.pop_sfrd # "None"
    THEN Ok(s, Over(Num(pop_sfrd(z)), Const("rhodot_cgs")))
    ELSE IF is_fcoll_model /\ ~is_user_fstar
    THEN Ok(s, Times(Const("rho_b_z0"), Num(dfcolldt(z))))
    ELSE SFRD_model(s, z)

\* SFRD(z)
SFRD(s, z) ==
    IF z > cfg.zform THEN Ok(s, Num(0))
    ELSE IF cfg.pop_sfrd # "None"
    THEN Ok(s, Over(Num(pop_sfrd(z)), Const("rhodot_cgs")))
    ELSE SFRD_model(s, z)

(***************************************************************************)
(* Luminosity function and emissivity                                      *)
(***************************************************************************)

\* The end of LuminosityFunction, from the band conversion on
LF_tail(s, L, Emin, Emax) ==
    Then(_convert_band(s, Emin, Emax), LAMBDA rb :
        IF cfg.lf_type = "dpl"
        THEN Printed(Ok(rb.st, Times(Times(Num(L), rb.val), Const("_DoublePowerLaw"))),
                     rb.log)
        ELSE Printed(Raise(rb.st, "AttributeError"), rb.log))

LuminosityFunction_late_check(s, L, z, Emin, Emax) ==
    IF is_fcoll_model THEN Raise(_convert_band(s, Emin, Emax).st, "TypeError")
    ELSE IF is_ham_model THEN LF_tail(s, L, Emin, Emax)
    ELSE IF is_hod_model
    THEN LF_tail(fstar([s EXCEPT !.mf_z = z], z, HaloM[1]).st, L, Emin, Emax)
    ELSE Raise(s, "TypeError")

\* LuminosityFunction(L, z, Emin, Emax)
LuminosityFunction(s, L, z, Emin, Emax) ==
    IF is_fcoll_model THEN Raise(s, "TypeError")
    ELSE IF is_ham_model THEN LF_tail(s, L, Emin, Emax)
    ELSE IF is_hod_model
    THEN LF_tail(fstar([s EXCEPT !.mf_z = z], z, HaloM[1]).st, L, Emin, Emax)
    ELSE Raise(s, "TypeError")

\* The Lyman limit the emissivity tests Emax against, in tenths of an eV
LymanLimitTenths == 136

\* "Emax > 13.6 and Emin < pf['pop_Emin_xray']" on the arguments as given:
\* None is less than every number.
FescApplies(Emin, Emax) ==
    /\ ~IsNone(Emax) /\ 10 * Get(Emax) > LymanLimitTenths
    /\ (IsNone(Emin) \/ Get(Emin) < cfg.pop_Emin_xray)

\* Emissivity(z, E, Emin, Emax)
Emissivity(s, z, E, Emin, Emax) ==
    IF ~(is_fcoll_model \/ cfg.pop_sfrd # "None") THEN Raise(s, "TypeError")
    ELSE Then(SFRD(s, z), LAMBDA r1 :
         IF r1.out # "return" THEN r1
         ELSE Then(yield_per_sfr(r1.st), LAMBDA r2 :
         IF r2.out # "return" THEN Printed(r2, r1.log)
         ELSE Then(_convert_band(r2.st, Emin, Emax), LAMBDA r3 :
         Then(Times(Times(r1.val, r2.val), r3.val), LAMBDA rhoL :
         Then(IF FescApplies(Emin, Emax)
              THEN Times(rhoL, Const("pop_fesc")) ELSE rhoL, LAMBDA rhoL2 :
             IF ~IsNone(E)
             THEN Printed(Ok(src(r3.st), Times(rhoL2, Const("Spectrum"))), r3.log)
             ELSE Printed(Ok(r3.st, rhoL2), r3.log))))))

\* NumberEmissivity(z, E, Emin, Emax)
NumberEmissivity(s, z, E, Emin, Emax) ==
    Then(Emissivity(s, z, E, Emin, Emax), LAMBDA r :
        IF r.out # "return" THEN r
        ELSE IF IsNone(E) THEN Printed(Raise(r.st, "TypeError"), r.log)
        ELSE [r EXCEPT !.val = Over(@, Times(Num(Get(E)), Const("erg_per_ev")))])

(***************************************************************************)
(* Construction                                                            *)
(***************************************************************************)

\* A tag with a space put before position p and character q in upper case
Spaced(t, p) == SubSeq(t, 1, p - 1) \o <<" ">> \o SubSeq(t, p, Len(t))
Tabbed(t, p) == SubSeq(t, 1, p - 1) \o <<"\t">> \o SubSeq(t, p, Len(t))
Uppered(t, q) ==
    [i \in 1..Len(t) |->
        IF i = q /\ \E n \in 1..Len(LowerChars) : LowerChars[n] = t[i]
        THEN UpperChars[CHOOSE n \in 1..Len(LowerChars) : LowerChars[n] = t[i]]
        ELSE t[i]]

\* Tags that are none of the five
erg_s == <<"e", "r", "g", "/", "s">>
photons_sfr == <<"p", "h", "o", "t", "o", "n", "s", "/", "s", "f", "r">>

\* The zero coefficients and the quantities of a population not yet queried
NoCoeff == <<0, 0, 0, 0, 0, 0>>

\* GalaxyPopulation.__init__: two empty caches; every lazily built attribute
\* is still missing.
InitSt ==
    [src |-> FALSE,
     yps |-> [set |-> FALSE, v |-> Num(0)],
     cf |-> <<>>,
     ev |-> <<>>,
     Mmin |-> FALSE,
     Macc |-> FALSE,
     constraints |-> [set |-> FALSE, L_star |-> 0],
     eta |-> [set |-> FALSE, v |-> [i \in 1..Len(HaloZ) |-> NotWritten]],
     ham |-> [set |-> FALSE, g |-> ZeroGrid],
     nsolve |-> ZeroGrid,
     coef |-> [set |-> FALSE, c |-> NoCoeff],
     nfit |-> 0,
     fstar_lam |-> FALSE,
     sfr_ham |-> [set |-> FALSE, n |-> 0],
     sfrd_tab |-> [set |-> FALSE, n |-> 0],
     sfrd_spl |-> FALSE,
     mf_z |-> 0]

\* What is known of the most recent call: its name and arguments, how it
\* ended (out is "return" or the exception raised), the value returned, the
\* lines printed, and the array returned by _fstar_ham or _fstar_coeff.
Called(op, z, M, E, Emin, Emax, r, grid, coeff) ==
    [op |-> op, z |-> z, M |-> M, E |-> E, Emin |-> Emin, Emax |-> Emax,
     out |-> r.out, val |-> r.val, log |-> r.log, grid |-> grid, coeff |-> coeff]

InitLast ==
    Called("__init__", 0, 0, None, None, None, Ok(InitSt, Num(0)), ZeroGrid, NoCoeff)

\* The parameter files of the populations studied. Parameters a model kind
\* never reads are held at one value.
BaseCfg ==
    [pop_model |-> "fcoll",
     pop_fstar |-> [fn |-> FALSE, c |-> 2],
     pop_sfrd |-> "None",
     pop_yield_units |-> erg_s_sfr,
     pop_yield |-> 3,
     zform |-> 8,
     dfcolldt |-> [z \in 6..9 |-> IF z = 8 THEN 0 - 1 ELSE z - 6],
     pop_Emin |-> 10,
     pop_Emax |-> 200,
     pop_Emin_xray |-> 100,
     spectrum |-> <<1, 1, 2>>,
     Mvir |-> [z \in 6..8 |-> IF z = 6 THEN 50 ELSE IF z = 7 THEN 5 ELSE 500],
     pop_Mmin |-> "None",
     pop_Macc |-> "slow",
     fit_ok |-> TRUE,
     nonconv |-> {},
     M_star_len |-> Len(ConZ),
     lf_type |-> "dpl"]

FstarChoices == {[fn |-> TRUE, c |-> 0]} \cup {[fn |-> FALSE, c |-> c] : c \in {0 - 1, 0, 2}}

MainTags == {erg_s_sfr, Spaced(Uppered(photons_msun, 1), 9), photons_sfr}

Spectra == {<<1, 1, 2>>, <<1, 2, 1>>}

\* Every combination of efficiency, explicit SFRD, unit tag and spectrum
FcollCfgs ==
    {[BaseCfg EXCEPT !.pop_fstar = f, !.pop_sfrd = d, !.pop_yield_units = t,
                     !.spectrum = w] :
        f \in FstarChoices, d \in {"None", "func"}, t \in MainTags, w \in Spectra}

OtherCfgs ==
    {[BaseCfg EXCEPT !.pop_model = m, !.pop_fstar = f, !.pop_sfrd = d, !.lf_type = l] :
        m \in {"hod", "user"}, f \in {[fn |-> TRUE, c |-> 0], [fn |-> FALSE, c |-> 2]},
        d \in {"None", "func"}, l \in {"dpl", "schecter"}}

HamCfgs ==
    {[BaseCfg EXCEPT !.pop_model = "ham", !.pop_fstar = f, !.pop_sfrd = d,
                     !.pop_yield_units = t, !.pop_Mmin = mm, !.pop_Macc = ma,
                     !.fit_ok = ok, !.nonconv = nc] :
        f \in {[fn |-> TRUE, c |-> 0], [fn |-> FALSE, c |-> 2]},
        d \in {"None", "func"}, t \in {erg_s_sfr, photons_sfr},
        mm \in {"None", "scalar"}, ma \in {"None", "slow", "fast"},
        ok \in BOOLEAN, nc \in {{}, {<<8, 10>>}}}

\* HAM populations whose pop_constraints lists fewer magnitudes M_star than
\* redshifts z
ShortCfgs ==
    {[BaseCfg EXCEPT !.pop_model = "ham", !.M_star_len = 1, !.pop_Macc = ma,
                     !.pop_yield_units = t] :
        ma \in {"slow", "fast"}, t \in {erg_s_sfr, photons_sfr}}

AllCfgs == FcollCfgs \cup OtherCfgs \cup HamCfgs \cup ShortCfgs

\* A population of each model kind, and the base population with one
\* parameter changed at a time
CoreCfgs ==
    {BaseCfg,
     [BaseCfg EXCEPT !.spectrum = <<1, 2, 1>>],
     [BaseCfg EXCEPT !.pop_yield_units = Spaced(Uppered(photons_msun, 1), 9)],
     [BaseCfg EXCEPT !.pop_yield_units = photons_sfr],
     [BaseCfg EXCEPT !.pop_fstar = [fn |-> FALSE, c |-> 0 - 1]],
     [BaseCfg EXCEPT !.pop_sfrd = "func"],
     [BaseCfg EXCEPT !.pop_model = "hod", !.pop_fstar = [fn |-> TRUE, c |-> 0]],
     [BaseCfg EXCEPT !.pop_model = "user", !.lf_type = "schecter"],
     [BaseCfg EXCEPT !.pop_model = "ham"],
     [BaseCfg EXCEPT !.pop_model = "ham", !.pop_sfrd = "func", !.lf_type = "schecter"],
     [BaseCfg EXCEPT !.pop_model = "ham", !.fit_ok = FALSE, !.spectrum = <<1, 2, 1>>]}

Init ==
    /\ cfg \in CoreCfgs
    /\ st = InitSt
    /\ last = InitLast
    /\ peer = InitSt

InitRates ==
    /\ cfg \in AllCfgs
    /\ st = InitSt
    /\ last = InitLast
    /\ peer = InitSt

(***************************************************************************)
(* Calls                                                                   *)
(***************************************************************************)

\* The arguments the calls are made with
Zs == {7, 8, 9}
Ms == {10, 100}
Ls == {3}
Es == {None, Some(10)}
Bands == {<<None, None>>, <<Some(10), Some(200)>>, <<None, Some(200)>>,
          <<Some(5), Some(3000)>>}

\* The most curve fits a run is followed through
MaxFit == 2

\* A second instance built from the same parameters, after a call took this
\* instance from s to s2: every cache is an attribute of self, the two
\* dictionaries are created by __init__ for each instance, and no method
\* writes a class attribute or a module global, so the other is as it was.
OtherInstance_shared(b, s, s2) == [b EXCEPT !.cf = s2.cf, !.ev = s2.ev]

OtherInstance(b, s, s2) == b

\* A call that ended as r
Do(op, z, M, E, Emin, Emax, r) ==
    /\ r.st.nfit <= MaxFit
    /\ st' = r.st
    /\ peer' = OtherInstance(peer, st, r.st)
    /\ last' = Called(op, z, M, E, Emin, Emax, r, r.st.ham.g, r.st.coef.c)
    /\ UNCHANGED cfg

CallSFRD == \E z \in Zs : Do("SFRD", z, 0, None, None, None, SFRD(st, z))

CallFstar == \E z \in Zs, M \in Ms : Do("fstar", z, M, None, None, None, fstar(st, z, M))

CallEmissivity ==
    \E z \in Zs, E \in Es, b \in Bands :
        Do("Emissivity", z, 0, E, b[1], b[2], Emissivity(st, z, E, b[1], b[2]))

CallNumberEmissivity ==
    \E z \in Zs, E \in Es, b \in Bands :
        Do("NumberEmissivity", z, 0, E, b[1], b[2],
           NumberEmissivity(st, z, E, b[1], b[2]))

CallLuminosityFunction ==
    \E L \in Ls, z \in Zs, b \in Bands :
        Do("LuminosityFunction", z, 0, None, b[1], b[2],
           LuminosityFunction(st, L, z, b[1], b[2]))

CallConvertBand ==
    \E b \in Bands :
        Do("_convert_band", 0, 0, None, b[1], b[2], _convert_band(st, b[1], b[2]))

CallGetEnergyPerPhoton ==
    \E b \in Bands :
        Do("_get_energy_per_photon", 0, 0, None, b[1], b[2],
           _get_energy_per_photon(st, b[1], b[2]))

GetYieldPerSfr == Do("yield_per_sfr", 0, 0, None, None, None, yield_per_sfr(st))

GetEta == Do("eta", 0, 0, None, None, None, eta(st))

GetFstarHam == Do("_fstar_ham", 0, 0, None, None, None, _fstar_ham(st))

GetConstraints == Do("constraints", 0, 0, None, None, None, constraints(st))

GetFstarCoeff == Do("_fstar_coeff", 0, 0, None, None, None, _fstar_coeff(st))

\* The band, emissivity and luminosity-function queries, and eta
Next ==
    \/ CallEmissivity
    \/ CallNumberEmissivity
    \/ CallLuminosityFunction
    \/ CallConvertBand
    \/ CallGetEnergyPerPhoton
    \/ GetYieldPerSfr
    \/ GetEta

Spec == Init /\ [][Next]_vars

\* The rate queries alone, over every parameter file
NextRates ==
    \/ CallSFRD
    \/ CallFstar
    \/ GetYieldPerSfr
    \/ GetEta
    \/ GetFstarHam
    \/ GetFstarCoeff
    \/ GetConstraints

SpecRates == InitRates /\ [][NextRates]_vars

(***************************************************************************)
(* The yield normalisation alone, over many spellings of the unit tag      *)
(***************************************************************************)

UpperAll(t) == [i \in 1..Len(t) |-> Uppered(t, i)[i]]

\* The spellings of tag t tried: as is, one space or tab put in, one letter
\* or every letter in upper case, and both at once.
Spellings(t) ==
    {t, UpperAll(t), Spaced(Spaced(UpperAll(t), Len(t) + 1), 1)}
    \cup {Spaced(t, p) : p \in 1..(Len(t) + 1)}
    \cup {Tabbed(t, p) : p \in 1..(Len(t) + 1)}
    \cup {Uppered(t, q) : q \in 1..Len(t)}

RawTags == UNION {Spellings(t) : t \in ValidTags \cup {erg_s, photons_sfr}}

InitSed ==
    /\ cfg \in {[BaseCfg EXCEPT !.pop_yield_units = t, !.pop_yield = y] :
                   t \in RawTags, y \in {3, 7}}
    /\ st = InitSt
    /\ last = InitLast
    /\ peer = InitSt

CallNormalizeSed == Do("normalize_sed", 0, 0, None, None, None, normalize_sed(st))

NextSed ==
    \/ CallNormalizeSed
    \/ GetYieldPerSfr

SpecSed == InitSed /\ [][NextSed]_vars

(***************************************************************************)
(* Two instances of one parameter file                                     *)
(***************************************************************************)

\* The caller turns to the other instance: the two change roles.
SwitchInstance ==
    /\ st' = peer
    /\ peer' = st
    /\ last' = [InitLast EXCEPT !.op = "other"]
    /\ UNCHANGED cfg

TwoCfgs ==
    {BaseCfg,
     [BaseCfg EXCEPT !.pop_model = "hod", !.pop_fstar = [fn |-> TRUE, c |-> 0]],
     [BaseCfg EXCEPT !.pop_model = "ham"],
     [BaseCfg EXCEPT !.pop_model = "ham", !.pop_sfrd = "func"]}

InitTwo ==
    /\ cfg \in TwoCfgs
    /\ st = InitSt
    /\ last = InitLast
    /\ peer = InitSt

NextTwo ==
    \/ CallSFRD
    \/ CallEmissivity
    \/ CallLuminosityFunction
    \/ CallFstar
    \/ GetEta
    \/ CallConvertBand
    \/ SwitchInstance

SpecTwo == InitTwo /\ [][NextTwo]_vars

(***************************************************************************)
(* Properties                                                              *)
(***************************************************************************)

\* C1: for every population and every z beyond the formation redshift,
\* SFRD(z) returns exactly 0.0.
C1_ZeroBeyondZform ==
    (last.op = "SFRD" /\ last.z > cfg.zform)
        => (last.out = "return" /\ last.val = Num(0))

C1_Witness ==
    /\ last.op = "SFRD" /\ last.z > cfg.zform
    /\ cfg.pop_sfrd = "func" /\ is_ham_model
    /\ last.out = "return"

\* The call the fcoll claims are about: SFRD(z) on an fcoll population with a
\* constant efficiency and no explicit SFRD, z not beyond zform
FcollSFRDCall ==
    /\ last.op = "SFRD" /\ is_fcoll_model /\ ~is_user_fstar
    /\ cfg.pop_sfrd = "None" /\ last.z <= cfg.zform

\* pop_fstar x rho_b_z0 x dfcolldt(z)
FcollProduct(z) ==
    Times(Times(Num(cfg.pop_fstar.c), Const("rho_b_z0")), Num(cfg.dfcolldt[z]))

\* C2, as stated: on such a call SFRD(z) returns
\* pop_fstar x rho_b_z0 x dfcolldt(z), for every z not beyond zform.
C2_AsStated ==
    FcollSFRDCall => (last.out = "return" /\ last.val = FcollProduct(last.z))

\* C2, amended: on such a call SFRD(z) returns the product whenever the
\* product is not negative, and returns nothing when it is negative.
C2_FcollProduct ==
    FcollSFRDCall =>
        IF FcollProduct(last.z).k >= 0
        THEN last.out = "return" /\ last.val = FcollProduct(last.z)
        ELSE last.out # "return"

C2_Witness ==
    FcollSFRDCall /\ last.out = "return" /\ last.val.k > 0

\* C3: under the fcoll model SFRD never returns a negative value, and a
\* negative product is reported as the negative-SFRD condition and halts the
\* run instead of being returned.
C3_NegativeIsFatal ==
    FcollSFRDCall =>
        /\ last.out = "return" => last.val.k >= 0
        /\ FcollProduct(last.z).k < 0 =>
              (last.out = "SystemExit" /\ "negative_SFRD" \in last.log)

\* The tag with every whitespace character removed and in lower case
Normalised(t) == lower(SelectSeq(t, LAMBDA c : c \notin {" ", "\t"}))

SedCall == last.op \in {"normalize_sed", "yield_per_sfr"}

\* C4: a tag that, stripped of whitespace and lower-cased, is none of the
\* five always raises the unrecognized-unit error; nothing is returned and
\* yield_per_sfr stays uncached. The tag is taken both with every whitespace
\* character stripped and with the space character alone stripped, as
\* the source strips it.
C4_UnrecognizedRaises ==
    (\/ Normalised(cfg.pop_yield_units) \notin ValidTags
     \/ lower(replace_space(cfg.pop_yield_units)) \notin ValidTags) =>
        /\ ~st.yps.set
        /\ SedCall => last.out = "ValueError"

C4_Witness ==
    /\ last.op = "yield_per_sfr" /\ last.out = "ValueError"
    /\ Normalised(cfg.pop_yield_units) = photons_sfr
    /\ cfg.pop_yield_units # photons_sfr

\* The conversion documented for each of the five tags
Documented(u) ==
    LET y == Num(cfg.pop_yield)
        E == Times(Const("AveragePhotonEnergy"), Const("erg_per_ev"))
    IN  CASE u = erg_s_sfr -> Over(Times(y, Const("s_per_yr")), Const("g_per_msun"))
          [] u = erg_s_hz_sfr -> y
          [] u = photons_baryon -> Over(Times(y, E), Const("g_per_baryon"))
          [] u = photons_msun -> Over(Times(y, E), Const("g_per_msun"))
          [] u = photons_s_sfr ->
                Over(Times(Times(y, E), Const("s_per_yr")), Const("g_per_msun"))

\* C5: for each of the five valid tags normalize_sed returns the documented
\* conversion of pop_yield, and only the photon tags consult the source.
C5_DocumentedConversion ==
    LET u == lower(replace_space(cfg.pop_yield_units))
    IN  (SedCall /\ u \in ValidTags) =>
            /\ last.out = "return"
            /\ last.val = Documented(u)
            /\ st.src <=> u \in PhotonTags

C5_Witness ==
    /\ last.op = "normalize_sed" /\ last.out = "return"
    /\ lower(replace_space(cfg.pop_yield_units)) = photons_baryon
    /\ cfg.pop_yield_units # photons_baryon
    /\ st.src

\* C6: _convert_band returns exactly 1.0 whenever the band asked for is the
\* native band, with the bounds omitted or given as pop_Emin and pop_Emax.
C6_NativeBandIsOne ==
    (/\ last.op = "_convert_band"
     /\ EffBand(last.Emin, last.Emax) = <<cfg.pop_Emin, cfg.pop_Emax>>)
        => (last.out = "return" /\ last.val = Num(1))

\* A step keeps every entry of the cache it starts with.
Kept(c, d) == \A k \in DOMAIN c : k \in DOMAIN d /\ d[k] = c[k]

C8_AsStated ==
    /\ st.nfit <= 1
    /\ \A i \in 1..Len(ConZ), j \in 1..Len(Marr) : st.nsolve[i][j] <= 1

\* C8, amended: once the grid exists no call re-runs the root-finder or
\* changes an entry, and _fstar_ham returns the stored grid; once a curve fit
\* has succeeded no call re-runs the fit or changes a coefficient, and
\* _fstar_coeff returns the stored coefficients; only a fit that raised is
\* run again.
C8_BuiltOnce ==
    [][/\ st.ham.set =>
             /\ st'.ham = st.ham /\ st'.nsolve = st.nsolve
             /\ (last'.op = "_fstar_ham" => last'.grid = st.ham.g)
       /\ st.coef.set =>
             /\ st'.coef = st.coef /\ st'.nfit = st.nfit
             /\ (last'.op = "_fstar_coeff" => last'.coeff = st.coef.c)
       /\ \A i \in 1..Len(ConZ), j \in 1..Len(Marr) : st'.nsolve[i][j] <= 1
       /\ st'.nfit > 1 => (~cfg.fit_ok /\ ~st'.coef.set)]_vars

C8_Witness ==
    /\ st.ham.set /\ st.coef.set /\ st.sfrd_spl
    /\ last.op = "_fstar_coeff" /\ last.out = "return"
    /\ \E i \in 1..Len(ConZ), j \in 1..Len(Marr) : st.nsolve[i][j] = 1

\* C9: LuminosityFunction on an fcoll population raises the type-mismatch
\* error, and eta on a population that is not HAM raises the model-mismatch
\* error; either leaves every cache and the halo state as they were.
C9_InvalidQueryRaises ==
    [][/\ (last'.op = "LuminosityFunction" /\ is_fcoll_model)
             => (last'.out = "TypeError" /\ st' = st)
       /\ (last'.op = "eta" /\ ~is_ham_model)
             => (last'.out = "AttributeError" /\ st' = st)]_vars

C9_Witness ==
    /\ last.op = "LuminosityFunction" /\ is_fcoll_model
    /\ last.out = "TypeError" /\ ~IsNone(last.Emin)
    /\ st.cf = <<>> /\ st.ev # <<>>

\* C10: fstar(z, M) returns pop_fstar(z, M) when pop_fstar is a function, in
\* every model kind; otherwise the constant pop_fstar when the model is not
\* HAM; otherwise the polynomial surface at the fitted coefficients, built on
\* first use. Only the third branch touches the instance.
C10_FstarDispatch ==
    [][last'.op = "fstar" =>
          IF is_user_fstar
          THEN /\ last'.out = "return"
               /\ last'.val = Num(pop_fstar(last'.z, last'.M))
               /\ st' = st
          ELSE IF ~is_ham_model
          THEN /\ last'.out = "return"
               /\ last'.val = Num(cfg.pop_fstar.c)
               /\ st' = st
          ELSE /\ st'.fstar_lam
               /\ IF last'.out = "return"
                  THEN /\ st'.ham.set /\ st'.coef.set
                       /\ last'.val = _fstar_poly(last'.z, last'.M, st'.coef.c)
                  ELSE /\ ~st'.coef.set
                       /\ last'.out \in {"ValueError", "TypeError", "IndexError",
                                         "RuntimeError"}]_vars

C10_Witness ==
    /\ last.op = "fstar" /\ is_ham_model /\ ~is_user_fstar
    /\ last.out = "return" /\ st.coef.set /\ st.nfit = 1
    /\ last.val.k # 0

\* The caches of an instance the claims name
Caches(s) ==
    [cf |-> s.cf, ev |-> s.ev, ham |-> s.ham, coef |-> s.coef, eta |-> s.eta,
     yps |-> s.yps]

C12_EmissivityProduct ==
    [][last'.op = "Emissivity" =>
          Then(SFRD(st, last'.z), LAMBDA r1 :
          Then(yield_per_sfr(r1.st), LAMBDA r2 :
          Then(_convert_band(r2.st, last'.Emin, last'.Emax), LAMBDA r3 :
          Then(IF IsNone(last'.E)
               THEN Times(Times(r1.val, r2.val), r3.val)
               ELSE Times(Times(Times(r1.val, r2.val), r3.val), Const("Spectrum")),
               LAMBDA rhoL :
              (r1.out = "return" /\ r2.out = "return") =>
                  /\ last'.out = "return"
                  /\ last'.val \in {rhoL, Times(rhoL, Const("pop_fesc"))}))))]_vars

\* The band straddles the Lyman limit and extends into X-rays.
Straddles(b) ==
    /\ 10 * b[1] < LymanLimitTenths
    /\ 10 * b[2] > LymanLimitTenths
    /\ b[2] > cfg.pop_Emin_xray

\* C13: Emissivity multiplies by pop_fesc exactly when the effective band
\* (the native band where a bound is omitted) straddles the Lyman limit and
\* extends into X-rays, and in no other case.
C13_FescOnEffectiveBand ==
    (last.op = "Emissivity" /\ last.out = "return" /\ last.val.k # 0) =>
        (last.val.u["pop_fesc"] = 1 <=> Straddles(EffBand(last.Emin, last.Emax)))

\* The grid points the solve is run for, and the grid fully built
Eligible(i, j) == Marr[j] >= MminArr[i]
GridDone ==
    /\ st.ham.set
    /\ \A i \in 1..Len(ConZ), j \in 1..Len(Marr) :
           Eligible(i, j) => st.nsolve[i][j] = 1

C15_HaloReadOnly == st.mf_z = InitSt.mf_z

\* An fstar or SFRD query that took the HAM path and returned a value
HamPathReturned ==
    /\ is_ham_model /\ ~is_user_fstar /\ last.out = "return"
    /\ \/ last.op = "fstar"
       \/ last.op = "SFRD" /\ cfg.pop_sfrd = "None" /\ last.z <= cfg.zform

\* C16: a HAM population passes through its stages in order, none skipped:
\* the source model is instantiated before the efficiency grid is solved,
\* the grid is solved before the polynomial fit is built, and the fit is
\* built before a query on the HAM path returns a value.
C16_StagesInOrder ==
    is_ham_model =>
        /\ st.ham.set => st.src
        /\ st.coef.set => GridDone
        /\ HamPathReturned => st.coef.set

\* The band of a request exceeds the native band on either side.
ExceedsNative(b) == b[1] < cfg.pop_Emin \/ b[2] > cfg.pop_Emax

\* C17: every call of _convert_band or _get_energy_per_photon whose band
\* exceeds the native band (Emin < pop_Emin or Emax > pop_Emax) prints the
\* warning for each exceeded side and still returns the value computed over
\* the out-of-range band; a repeated request for a band already in the cache
\* included; no such call raises.
C17_OutOfBandWarned ==
    (/\ last.op \in {"_convert_band", "_get_energy_per_photon"}
     /\ ExceedsNative(EffBand(last.Emin, last.Emax))) =>
        /\ last.out = "return"
        /\ last.log = BandWarnings(EffBand(last.Emin, last.Emax))
        /\ last.val = IF last.op = "_convert_band"
                      THEN Num(quad(Spectrum, EffBand(last.Emin, last.Emax)[1],
                                    EffBand(last.Emin, last.Emax)[2]))
                      ELSE Num(quad(SpectrumTimesE, EffBand(last.Emin, last.Emax)[1],
                                    EffBand(last.Emin, last.Emax)[2]))

\* The grid of s as _fstar_ham is to leave it: one row per constraint
\* redshift, one column per mass of pop_logM; an entry below Mmin[i] is 0 and
\* was never solved for, any other entry is what the root-finder returned for
\* (z_i, M_j) and was written once.
GridAsBuilt(s) ==
    /\ s.ham.set
    /\ Len(s.ham.g) = Len(ConZ)
    /\ \A i \in 1..Len(ConZ) : Len(s.ham.g[i]) = Len(pop_logM)
    /\ \A i \in 1..Len(ConZ), j \in 1..Len(Marr) :
           IF Marr[j] < MminArr[i]
           THEN s.ham.g[i][j] = 0 /\ s.nsolve[i][j] = 0
           ELSE /\ s.ham.g[i][j] = fsolve(ConZ[i], Marr[j], s.eta.v[i])
                /\ s.nsolve[i][j] = 1

\* C18: the call that builds the HAM efficiency grid and returns leaves it
\* with one row per constraint redshift and one column per pop_logM mass,
\* every entry with M_j < Mmin[i] exactly 0 and unsolved, every other entry
\* the root-finder's value for (z_i, M_j), written exactly once; and the
\* grid stays so under every later call.
C18_GridShapeAndEntries ==
    [][/\ (~st.ham.set /\ st'.ham.set /\ last'.out = "return")
             => GridAsBuilt(st')
       /\ GridAsBuilt(st) => GridAsBuilt(st')]_vars

\* A grid that was built holds both kinds of entry, a zero below Mmin and a
\* solved value above it.
C18_Witness ==
    /\ last.op = "_fstar_ham" /\ last.out = "return" /\ GridAsBuilt(st)
    /\ \E i \in 1..Len(ConZ), j \in 1..Len(Marr) : Marr[j] < MminArr[i]
    /\ \E i \in 1..Len(ConZ), j \in 1..Len(Marr) :
           Marr[j] >= MminArr[i] /\ st.ham.g[i][j] # 0

\* C19: in eta, at every redshift the indices j1 and j2 = j1 + 1 bracket the
\* minimum mass: both lie inside the mass grid, halos.M[j1] <= Mmin <=
\* halos.M[j2] with halos.M[j1] the nearest grid point at or below Mmin (so
\* the trapezoid width logM[j2] - log10(Mmin) is non-negative and the
\* interpolation at Mmin lies inside [M[j1], M[j2]]); no index leaves the
\* grid.
C19_IndicesBracketMmin ==
    /\ \A i \in 1..Len(HaloZ) :
           (st.eta.set /\ st.eta.v[i].w) =>
               /\ st.eta.v[i].j2 = st.eta.v[i].j1 + 1
               /\ st.eta.v[i].j1 \in 1..Len(HaloM)
               /\ st.eta.v[i].j2 \in 1..Len(HaloM)
               /\ HaloM[st.eta.v[i].j1] <= MminArr[i]
               /\ MminArr[i] <= HaloM[st.eta.v[i].j2]
               /\ \A k \in 1..Len(HaloM) :
                      HaloM[k] <= MminArr[i] => HaloM[k] <= HaloM[st.eta.v[i].j1]
    /\ (last.op = "eta" /\ cfg.pop_Mmin = "None" /\ cfg.pop_Macc # "None")
           => last.out \notin {"IndexError", "ValueError"}

\* The entry of halos.z that holds the redshift z
IndexOfZ(z) == CHOOSE k \in 1..Len(HaloZ) : HaloZ[k] = z

\* C20: in the HAM solve the minimum mass and the eta used for the i-th
\* constraint redshift z_i are those evaluated at z_i itself: a point is
\* solved only if M_j is at least the minimum mass at z_i, and with the eta
\* entry of z_i; this for constraint redshifts that are not the first
\* entries of the halo grid, and for a fixed pop_Mmin as for one derived from
\* pop_Tmin (with a fixed pop_Mmin the solve reads Mmin without an error).
C20_MminEtaAtSameRedshift ==
    /\ \A i \in 1..Len(ConZ), j \in 1..Len(Marr) :
           (st.ham.set /\ st.nsolve[i][j] >= 1) =>
               /\ Marr[j] >= VirialMass(ConZ[i])
               /\ st.ham.g[i][j] =
                      fsolve(ConZ[i], Marr[j], st.eta.v[IndexOfZ(ConZ[i])])
    /\ (last.op = "_fstar_ham" /\ last.out = "return" /\ ~is_user_fstar) =>
           \A i \in 1..Len(ConZ), j \in 1..Len(Marr) :
               Marr[j] >= VirialMass(ConZ[i]) => st.nsolve[i][j] >= 1
    /\ (last.op = "_fstar_ham" /\ cfg.pop_Mmin = "scalar" /\ cfg.pop_Macc # "None")
           => last.out # "TypeError"

\* The eta array and the constraints mapping of s fully constructed
EtaBuilt(s) == s.eta.set /\ \A i \in 1..Len(HaloZ) : s.eta.v[i].w
ConstraintsBuilt(s) == s.constraints.set /\ s.constraints.L_star = Len(ConZ)

\* C21: a lazily built cache is never observed partly built: an access to
\* _fstar_ham, eta or constraints that returns (rather than raises) returns a
\* fully constructed value, also when an earlier construction on the same
\* instance raised part-way through.
C21_NoPartialCache ==
    /\ (last.op = "_fstar_ham" /\ last.out = "return") => GridDone
    /\ (last.op = "eta" /\ last.out = "return") => EtaBuilt(st)
    /\ (last.op = "constraints" /\ last.out = "return") => ConstraintsBuilt(st)


====
